---- MODULE Spec2Model ----
(***************************************************************************)
(* A model of dask_spark/core.py: the two bridges between a Dask cluster   *)
(* and a Spark cluster.                                                    *)
(*                                                                         *)
(*   spark_to_dask  (lines 118-156)  with start_worker (lines 93-115)      *)
(*   dask_to_spark  (lines 47-90)    with start_master (lines 17-30) and   *)
(*                                   start_slave (lines 33-44)             *)
(*                                                                         *)
(* Four specifications share the variables:                                *)
(*   SpecBootstrap  start_worker called from several threads of the        *)
(*                  Python processes (slots), statement by statement;      *)
(*   SpecReverse    one spark_to_dask call, its background thread and the  *)
(*                  Spark tasks that run start_worker, one task at a time  *)
(*                  in a slot (LiveSpecReverse: with the caller's thread   *)
(*                  scheduled fairly);                                     *)
(*   SpecForward    one dask_to_spark call on a Dask cluster whose worker  *)
(*                  registry is drawn from bounded sets;                   *)
(*   SpecLauncher   start_master and start_slave sent repeatedly to one    *)
(*                  scheduler and its workers, and the processes' exits.   *)
(***************************************************************************)
EXTENDS Integers, Sequences, FiniteSets, TLC

\* ------------------------------------------------------------------ bounds
\* Threads (SpecBootstrap) or Spark tasks (SpecReverse) that call start_worker.
NInv == 2
\* Python processes that can host a Dask worker (Spark execution slots).
NSlots == 2

\* Worker addresses of the Dask cluster that dask_to_spark runs on.
NWorkers == 3
\* Workers that join or leave that cluster while dask_to_spark is running.
MaxChurn == 1
\* how many start_master calls and how many start_slave calls SpecLauncher sends
MaxLaunches == 2

\* --------------------------------------------------------- program constants
\* range(1, 1000) at line 143: the last value of i.
LastIteration == 999
\* The value of i that line 152 takes for the timeout.
TimeoutIteration == 999
\* start_master's default port (line 17).
MasterPort == 7077
\* The memory of a worker that reports none (4e9 bytes, line 58).  Memory is
\* counted in units of 10^6 bytes, TLC's integers having 32 bits.
DefaultMemory == 4000

Inv == 1..NInv
Slot == 1..NSlots

VARIABLES
    \* ---- start_worker, per invocation
    ipc,            \* the line the invocation is about to execute
    islot,          \* the process (slot) the invocation runs in, 0 before a call
    iret,           \* its return value
    wstatus,        \* w.status of the Worker the invocation made
    global_worker,  \* distributed.global_worker of each process
    \* ---- spark_to_dask
    pc,             \* the caller's position
    cluster,        \* the LocalCluster of line 134
    thread,         \* the daemon thread of lines 139-141
    workers,        \* cluster.scheduler.workers
    i,              \* the loop variable of line 143
    found,          \* the outcome of the last test of line 144
    polls,          \* how often line 144 read the registry
    sleeps,         \* how often line 149 slept
    \* ---- dask_to_spark
    dworkers,       \* the Dask scheduler's live worker registry
    churn,          \* how many workers joined or left during the call
    sched_addr,     \* dask_scheduler.address
    fpc,            \* the coroutine's position
    ferr,           \* the exception it raised
    cluster_info,   \* cluster_info['workers'] of line 49
    hosts,          \* the dict `hosts` of lines 52-58, in insertion order
    mcalls,         \* how many start_master calls line 63 dispatched
    mcall,          \* the state of the start_master call
    master,         \* `master` of line 63
    slaves,         \* the start_slave calls of lines 64-68, as dispatched
    procs,          \* the subprocesses spawned by Popen, in spawn order
    extensions,     \* extensions['spark'] of the scheduler and the workers
    registered,     \* the atexit handlers of the scheduler and the workers
    sc,             \* the SparkContext of line 69
    terminated,     \* the subprocesses proc.terminate() was called on
    exited          \* the processes whose interpreter has exited

bvars == <<ipc, islot, iret, wstatus, global_worker, workers>>
rvars == <<pc, cluster, thread, i, found, polls, sleeps>>
fvars == <<dworkers, churn, sched_addr, fpc, ferr, cluster_info, hosts,
           mcalls, mcall, master, slaves, procs, extensions, registered, sc,
           terminated, exited>>
xvars == <<terminated, exited>>
vars == <<ipc, islot, iret, wstatus, global_worker, workers,
          pc, cluster, thread, i, found, polls, sleeps,
          dworkers, churn, sched_addr, fpc, ferr, cluster_info, hosts,
          mcalls, mcall, master, slaves, procs, extensions, registered, sc,
          terminated, exited>>

\* ============================================================ start_worker
InProgress(v) == ipc[v] \notin {"idle", "done"}

\* A worker that was constructed and has not reached status 'closed'.
ActiveWorker(v) == wstatus[v] \in {"init", "running"}

\* The state of an invocation that enters start_worker in process s.
Enter(v, s) ==
    /\ ipc' = [ipc EXCEPT ![v] = "l98"]
    /\ islot' = [islot EXCEPT ![v] = s]
    /\ iret' = [iret EXCEPT ![v] = "none"]
    /\ wstatus' = [wstatus EXCEPT ![v] = "none"]
    /\ UNCHANGED <<global_worker, workers>>

\* A thread of process s calls start_worker(address).
Call(v, s) ==
    /\ ipc[v] \in {"idle", "done"}
    /\ Enter(v, s)
    /\ UNCHANGED <<rvars, fvars>>

\* Lines 98-99: the test of distributed.global_worker.
CheckOccupied(v) ==
    /\ ipc[v] = "l98"
    /\ IF global_worker[islot[v]] # 0
         THEN /\ ipc' = [ipc EXCEPT ![v] = "done"]
              /\ iret' = [iret EXCEPT ![v] = "already occupied"]
         ELSE /\ ipc' = [ipc EXCEPT ![v] = "l101"]
              /\ UNCHANGED iret
    /\ UNCHANGED <<islot, wstatus, global_worker, workers>>
    /\ UNCHANGED <<rvars, fvars>>

\* Lines 101-104: the Worker is constructed and started.
StartWorker(v) ==
    /\ ipc[v] = "l101"
    /\ wstatus' = [wstatus EXCEPT ![v] = "init"]
    /\ ipc' = [ipc EXCEPT ![v] = "l106"]
    /\ UNCHANGED <<islot, iret, global_worker, workers>>
    /\ UNCHANGED <<rvars, fvars>>

\* Line 106: distributed.global_worker = w.
SetMarker(v) ==
    /\ ipc[v] = "l106"
    /\ global_worker' = [global_worker EXCEPT ![islot[v]] = v]
    /\ ipc' = [ipc EXCEPT ![v] = "l111"]
    /\ UNCHANGED <<islot, iret, wstatus, workers>>
    /\ UNCHANGED <<rvars, fvars>>

\* Lines 108-113: loop.run_sync(_) returns once w.status is 'closed'.
WaitClosed(v) ==
    /\ ipc[v] = "l111"
    /\ wstatus[v] = "closed"
    /\ ipc' = [ipc EXCEPT ![v] = "l114"]
    /\ UNCHANGED <<islot, iret, wstatus, global_worker, workers>>
    /\ UNCHANGED <<rvars, fvars>>

\* ClearMarker that leaves distributed.global_worker as it is.
ClearMarker_Skip(v) ==
    /\ ipc[v] = "l114"
    /\ ipc' = [ipc EXCEPT ![v] = "l115"]
    /\ UNCHANGED <<islot, iret, wstatus, global_worker, workers>>
    /\ UNCHANGED <<rvars, fvars>>

\* Line 114: distributed.global_worker = False.
ClearMarker(v) ==
    /\ ipc[v] = "l114"
    /\ global_worker' = [global_worker EXCEPT ![islot[v]] = 0]
    /\ ipc' = [ipc EXCEPT ![v] = "l115"]
    /\ UNCHANGED <<islot, iret, wstatus, workers>>
    /\ UNCHANGED <<rvars, fvars>>

\* Line 115: return ['completed'].
ReturnCompleted(v) ==
    /\ ipc[v] = "l115"
    /\ iret' = [iret EXCEPT ![v] = "completed"]
    /\ ipc' = [ipc EXCEPT ![v] = "done"]
    /\ UNCHANGED <<islot, wstatus, global_worker, workers>>
    /\ UNCHANGED <<rvars, fvars>>

\* The Worker runs on IOLoop.current() of the calling thread (lines 101-102),
\* which runs only inside loop.run_sync (line 113): the worker starts,
\* registers with the scheduler at `address` and changes status only then.
Register(v) ==
    /\ ipc[v] = "l111"
    /\ wstatus[v] = "init"
    /\ wstatus' = [wstatus EXCEPT ![v] = "running"]
    /\ workers' = workers \cup {v}
    /\ UNCHANGED <<ipc, islot, iret, global_worker>>
    /\ UNCHANGED <<rvars, fvars>>

\* The worker closes (w.status becomes 'closed') and leaves the registry.
Close(v) ==
    /\ ipc[v] = "l111"
    /\ ActiveWorker(v)
    /\ wstatus' = [wstatus EXCEPT ![v] = "closed"]
    /\ workers' = workers \ {v}
    /\ UNCHANGED <<ipc, islot, iret, global_worker>>
    /\ UNCHANGED <<rvars, fvars>>

WorkerStep(v) ==
    \/ CheckOccupied(v)
    \/ StartWorker(v)
    \/ SetMarker(v)
    \/ WaitClosed(v)
    \/ ClearMarker(v)
    \/ ReturnCompleted(v)
    \/ Register(v)
    \/ Close(v)

\* ============================================================ spark_to_dask
\* The Spark slot that runs the task of partition v.
SlotOfTask(v) == ((v - 1) % NSlots) + 1

\* A task of rdd.mapPartitions (line 138) runs start_worker on its slot.  A
\* slot runs one task at a time, so that nothing else reads or writes the
\* slot's distributed.global_worker while the task is in lines 93-106: the
\* task takes them in one step, up to loop.run_sync (line 113) or to the
\* return of line 99.
TaskBegin(v) ==
    /\ thread = "started"
    /\ ipc[v] = "idle"
    /\ \A u \in Inv : InProgress(u) => islot[u] # SlotOfTask(v)
    /\ islot' = [islot EXCEPT ![v] = SlotOfTask(v)]
    /\ IF global_worker[SlotOfTask(v)] # 0
         THEN /\ ipc' = [ipc EXCEPT ![v] = "done"]
              /\ iret' = [iret EXCEPT ![v] = "already occupied"]
              /\ UNCHANGED <<wstatus, global_worker>>
         ELSE /\ wstatus' = [wstatus EXCEPT ![v] = "init"]
              /\ global_worker' = [global_worker EXCEPT ![SlotOfTask(v)] = v]
              /\ ipc' = [ipc EXCEPT ![v] = "l111"]
              /\ UNCHANGED iret
    /\ UNCHANGED workers
    /\ UNCHANGED <<rvars, fvars>>

\* Lines 111-115 of a task: loop.run_sync returns on status 'closed', the
\* marker is cleared and ['completed'] returned.
TaskEnd(v) ==
    /\ ipc[v] = "l111"
    /\ wstatus[v] = "closed"
    /\ global_worker' = [global_worker EXCEPT ![islot[v]] = 0]
    /\ iret' = [iret EXCEPT ![v] = "completed"]
    /\ ipc' = [ipc EXCEPT ![v] = "done"]
    /\ UNCHANGED <<islot, wstatus, workers>>
    /\ UNCHANGED <<rvars, fvars>>

\* Lines 134-141: the cluster is created and the daemon thread started.
LaunchThread ==
    /\ pc = "l134"
    /\ cluster' = "running"
    /\ thread' = "started"
    /\ pc' = "l143"
    /\ i' = 1
    /\ UNCHANGED <<found, polls, sleeps>>
    /\ UNCHANGED <<bvars, fvars>>

\* LoopIteration without the break of line 145.
LoopIteration_NoBreak ==
    /\ pc = "l143"
    /\ polls' = polls + 1
    /\ found' = (workers # {})
    /\ sleeps' = sleeps + 1
    /\ IF i < LastIteration
         THEN i' = i + 1 /\ pc' = "l143"
         ELSE i' = i /\ pc' = "l152"
    /\ UNCHANGED <<cluster, thread>>
    /\ UNCHANGED <<bvars, fvars>>

\* LoopIteration over range(1, 1001).
LoopIteration_OneMore ==
    /\ pc = "l143"
    /\ polls' = polls + 1
    /\ IF workers # {}
         THEN /\ found' = TRUE
              /\ pc' = "l152"
              /\ UNCHANGED <<i, sleeps>>
         ELSE /\ found' = FALSE
              /\ sleeps' = sleeps + 1
              /\ IF i <= LastIteration
                   THEN i' = i + 1 /\ pc' = "l143"
                   ELSE i' = i /\ pc' = "l152"
    /\ UNCHANGED <<cluster, thread>>
    /\ UNCHANGED <<bvars, fvars>>

\* Lines 143-150: one iteration of the polling loop, with the loop's advance.
LoopIteration ==
    /\ pc = "l143"
    /\ polls' = polls + 1
    /\ IF workers # {}
         THEN /\ found' = TRUE
              /\ pc' = "l152"
              /\ UNCHANGED <<i, sleeps>>
         ELSE /\ found' = FALSE
              /\ sleeps' = sleeps + 1
              /\ IF i < LastIteration
                   THEN i' = i + 1 /\ pc' = "l143"
                   ELSE i' = i /\ pc' = "l152"
    /\ UNCHANGED <<cluster, thread>>
    /\ UNCHANGED <<bvars, fvars>>

\* Finish without the test of line 152.
Finish_NoTimeout ==
    /\ pc = "l152"
    /\ pc' = "returned"
    /\ UNCHANGED <<cluster, thread, i, found, polls, sleeps>>
    /\ UNCHANGED <<bvars, fvars>>

\* Finish that returns only when every slot has its worker registered.
Finish_WaitAll ==
    /\ pc = "l152"
    /\ i = TimeoutIteration \/ Cardinality(workers) >= NSlots
    /\ pc' = IF i = TimeoutIteration THEN "raised" ELSE "returned"
    /\ UNCHANGED <<cluster, thread, i, found, polls, sleeps>>
    /\ UNCHANGED <<bvars, fvars>>

\* Finish that closes the cluster and cancels the job before it raises.
Finish_Teardown ==
    /\ pc = "l152"
    /\ IF i = TimeoutIteration
         THEN pc' = "raised" /\ cluster' = "closed" /\ thread' = "cancelled"
         ELSE pc' = "returned" /\ UNCHANGED <<cluster, thread>>
    /\ UNCHANGED <<i, found, polls, sleeps>>
    /\ UNCHANGED <<bvars, fvars>>

\* Lines 152-156: the test for the timeout, then the client is made and
\* returned.
Finish ==
    /\ pc = "l152"
    /\ pc' = IF i = TimeoutIteration THEN "raised" ELSE "returned"
    /\ UNCHANGED <<cluster, thread, i, found, polls, sleeps>>
    /\ UNCHANGED <<bvars, fvars>>

\* line 138: .count() returns when every task has returned.
ThreadFinish ==
    /\ thread = "started"
    /\ \A v \in Inv : ipc[v] = "done"
    /\ thread' = "finished"
    /\ UNCHANGED <<pc, cluster, i, found, polls, sleeps>>
    /\ UNCHANGED <<bvars, fvars>>

CallerStep == LaunchThread \/ LoopIteration \/ Finish

\* ============================================================ dask_to_spark
Addr == 1..NWorkers
\* The processes that hold extensions and atexit handlers: the scheduler (0)
\* and the workers.
Loc == {0} \cup Addr

Host == {"A", "B"}
\* What a worker reports besides its host, after the workers of the
\* specification's scenario: 2 cores and no memory limit, or 4 cores and a
\* limit of 8e9 bytes (in units of 10^6 bytes).
Kind == {[ncores |-> 2], [ncores |-> 4, memory_limit |-> 8000]}

\* kind, with the entry 'host': h
WithHost(kind, h) ==
    [key \in DOMAIN kind \cup {"host"} |->
        IF key = "host" THEN h ELSE kind[key]]

\* The entries of cluster_info['workers']: 'memory_limit' may be missing.
InfoSet == {WithHost(kind, h) : kind \in Kind, h \in Host}

\* The entries of workers that join during a call, one for each host: no line
\* reads the registry's entries after the snapshot of line 49.
JoinInfo == {WithHost([ncores |-> 2], h) : h \in Host}

\* Scheduler addresses, as sequences of characters: tcp://a:1, tcp://[::1]:1.
SchedulerAddresses ==
    { <<"t", "c", "p", ":", "/", "/", "a", ":", "1">>,
      <<"t", "c", "p", ":", "/", "/", "[", ":", ":", "1", "]", ":", "1">> }

\* ---- the string operations of lines 18-22 and 35-36
\* s.split(sep)
RECURSIVE Split(_, _)
Split(s, sep) ==
    IF s = <<>> THEN << <<>> >>
    ELSE LET rest == Split(Tail(s), sep)
         IN  IF Head(s) = sep
               THEN << <<>> >> \o rest
               ELSE << <<Head(s)>> \o Head(rest) >> \o Tail(rest)

RECURSIVE LStrip(_, _)
LStrip(s, chars) ==
    IF s # <<>> /\ Head(s) \in chars THEN LStrip(Tail(s), chars) ELSE s

RECURSIVE RStrip(_, _)
RStrip(s, chars) ==
    IF s # <<>> /\ s[Len(s)] \in chars
      THEN RStrip(SubSeq(s, 1, Len(s) - 1), chars)
      ELSE s

\* s.strip(chars)
Strip(s, chars) == RStrip(LStrip(s, chars), chars)

DigitChar == <<"0", "1", "2", "3", "4", "5", "6", "7", "8", "9">>

\* str(n) of a natural number
RECURSIVE Str(_)
Str(n) ==
    IF n < 10 THEN <<DigitChar[n + 1]>>
    ELSE Str(n \div 10) \o <<DigitChar[(n % 10) + 1]>>

\* int(memory), lines 36 and 66: the memory figures of a snapshot are whole
\* numbers of bytes, which int() leaves as they are.
ToInt(memory) == memory

\* str(int(memory)) + 'B' of line 36: the byte count in decimal (the units of
\* 10^6 bytes give six zeros), then the unit.
MemoryArg(memory) ==
    (IF ToInt(memory) = 0 THEN <<"0">>
     ELSE Str(ToInt(memory)) \o <<"0", "0", "0", "0", "0", "0">>) \o <<"B">>

\* 'spark://%s:%d' % (host, port), line 22
MasterString(host, port) ==
    <<"s", "p", "a", "r", "k", ":", "/", "/">> \o host \o <<":">> \o Str(port)

\* Get that counts a missing key as 0.
Get_Zero(info, key, default) == IF key \in DOMAIN info THEN info[key] ELSE 0

\* info.get(key, default)
Get(info, key, default) == IF key \in DOMAIN info THEN info[key] ELSE default

\* AggregateStep without the grouping of line 55: an entry for each worker.
AggregateStep_PerWorker(hs, addr, info) ==
    Append(hs, [host |-> info.host, address |-> addr, cores |-> info.ncores,
                memory |-> Get(info, "memory_limit", DefaultMemory)])

\* AggregateStep that keeps the address of the last worker of a host.
AggregateStep_LastAddress(hs, addr, info) ==
    LET host == info.host
        hs1 == IF \E k \in 1..Len(hs) : hs[k].host = host
                 THEN hs
                 ELSE Append(hs, [host |-> host, address |-> addr,
                                  cores |-> 0, memory |-> 0])
        k == CHOOSE k \in 1..Len(hs1) : hs1[k].host = host
    IN  [hs1 EXCEPT ![k].address = addr,
                    ![k].cores = @ + info.ncores,
                    ![k].memory = @ + Get(info, "memory_limit", DefaultMemory)]

\* ---- lines 53-58: the aggregation
\* One pass of the loop body, for the worker addr with entry info.
AggregateStep(hs, addr, info) ==
    LET host == info.host
        hs1 == IF \E k \in 1..Len(hs) : hs[k].host = host
                 THEN hs
                 ELSE Append(hs, [host |-> host, address |-> addr,
                                  cores |-> 0, memory |-> 0])
        k == CHOOSE k \in 1..Len(hs1) : hs1[k].host = host
    IN  [hs1 EXCEPT ![k].cores = @ + info.ncores,
                    ![k].memory = @ + Get(info, "memory_limit", DefaultMemory)]

\* The loop over cluster_info['workers'].items(), in the order `order`.
RECURSIVE AggregateLoop(_, _, _)
AggregateLoop(order, infos, hs) ==
    IF order = <<>> THEN hs
    ELSE AggregateLoop(Tail(order), infos,
                       AggregateStep(hs, Head(order), infos[Head(order)]))

\* The keys of a dict in the order its items() are iterated.  A dict keeps its
\* keys in insertion order, and the workers are numbered in the order they
\* joined the scheduler's registry.
RECURSIVE Sorted(_)
Sorted(S) ==
    IF S = {} THEN <<>>
    ELSE LET a == CHOOSE x \in S : \A y \in S : x <= y
         IN  <<a>> \o Sorted(S \ {a})

Keys(d) == Sorted(DOMAIN d)

\* A subprocess as Popen made it: the command line and the process it runs in.
MasterProc(host, port) ==
    [cmd |-> "start-master.sh", at |-> 0, host |-> host, port |-> Str(port),
     master |-> <<>>, cores |-> <<>>, memory |-> <<>>]

SlaveProc(addr, m, cores, memory) ==
    [cmd |-> "start-slave.sh", at |-> addr, host |-> <<>>, port |-> <<>>,
     master |-> m, cores |-> Str(cores), memory |-> MemoryArg(memory)]

\* Spawn that keeps the extensions['spark'] the process already has.
Spawn_KeepFirst(loc, proc) ==
    /\ procs' = Append(procs, proc)
    /\ extensions' = IF extensions[loc] = 0
                        THEN [extensions EXCEPT ![loc] = Len(procs) + 1]
                        ELSE extensions
    /\ registered' = [registered EXCEPT ![loc] = Append(@, Len(procs) + 1)]

\* Popen returned proc in process loc: lines 24-28 and 37-42 store it in
\* extensions['spark'] and register the atexit handler that terminates it.
Spawn(loc, proc) ==
    /\ procs' = Append(procs, proc)
    /\ extensions' = [extensions EXCEPT ![loc] = Len(procs) + 1]
    /\ registered' = [registered EXCEPT ![loc] = Append(@, Len(procs) + 1)]

\* Identity without the test of lines 60-61.
Identity_NoCheck ==
    /\ fpc = "l49"
    /\ cluster_info' = dworkers
    /\ hosts' = AggregateLoop(Keys(dworkers), dworkers, <<>>)
    /\ fpc' = "l63"
    /\ mcalls' = mcalls + 1
    /\ mcall' = [status |-> "pending", result |-> <<>>]
    /\ UNCHANGED <<dworkers, churn, sched_addr, ferr, master, slaves, procs,
                   extensions, registered, sc>>
    /\ UNCHANGED <<bvars, rvars, xvars>>

\* Lines 49-63: the scheduler answers identity(); the coroutine aggregates the
\* workers, raises on none, and sends start_master to the scheduler.
Identity ==
    /\ fpc = "l49"
    /\ cluster_info' = dworkers
    /\ hosts' = AggregateLoop(Keys(dworkers), dworkers, <<>>)
    /\ IF hosts' = <<>>
         THEN /\ fpc' = "raised"
              /\ ferr' = "ValueError"
              /\ UNCHANGED <<mcalls, mcall>>
         ELSE /\ fpc' = "l63"
              /\ mcalls' = mcalls + 1
              /\ mcall' = [status |-> "pending", result |-> <<>>]
              /\ UNCHANGED ferr
    /\ UNCHANGED <<dworkers, churn, sched_addr, master, slaves, procs,
                   extensions, registered, sc>>
    /\ UNCHANGED <<bvars, rvars, xvars>>

\* Lines 17-30 on the scheduler; Popen spawns the master or raises.
start_master(port, spawned) ==
    /\ mcall.status = "pending"
    /\ LET parts == Split(sched_addr, ":")
       IN  IF Len(parts) = 3 /\ spawned
             THEN LET host == Strip(parts[2], {":", "/"})
                  IN  /\ Spawn(0, MasterProc(host, port))
                      /\ mcall' = [status |-> "ok",
                                   result |-> MasterString(host, port)]
             ELSE /\ mcall' = [status |-> "failed", result |-> <<>>]
                  /\ UNCHANGED <<procs, extensions, registered>>
    /\ UNCHANGED <<dworkers, churn, sched_addr, fpc, ferr, cluster_info, hosts,
                   mcalls, master, slaves, sc>>
    /\ UNCHANGED <<bvars, rvars, xvars>>

\* The start_slave calls of lines 64-68, one for each value of `hosts`.
SlaveCalls(hs, m) ==
    [k \in 1..Len(hs) |->
        [workers |-> hs[k].address, master |-> m, cores |-> hs[k].cores,
         memory |-> ToInt(hs[k].memory), status |-> "pending"]]

\* MasterReply that sends the start_slave calls whatever start_master answered.
MasterReply_IgnoreFailure ==
    /\ fpc = "l63"
    /\ mcall.status \in {"ok", "failed"}
    /\ master' = mcall.result
    /\ slaves' = SlaveCalls(hosts, mcall.result)
    /\ fpc' = "l64"
    /\ UNCHANGED <<dworkers, churn, sched_addr, cluster_info, hosts, mcalls,
                   mcall, procs, extensions, registered, sc, ferr>>
    /\ UNCHANGED <<bvars, rvars, xvars>>

\* MasterReply that reads the workers again before it sends the start_slave
\* calls.
MasterReply_Requery ==
    /\ fpc = "l63"
    /\ mcall.status \in {"ok", "failed"}
    /\ IF mcall.status = "failed"
         THEN /\ fpc' = "raised"
              /\ ferr' = "start_master"
              /\ UNCHANGED <<master, slaves, hosts>>
         ELSE /\ master' = mcall.result
              /\ hosts' = AggregateLoop(Keys(dworkers), dworkers, <<>>)
              /\ slaves' = SlaveCalls(hosts', mcall.result)
              /\ fpc' = "l64"
              /\ UNCHANGED ferr
    /\ UNCHANGED <<dworkers, churn, sched_addr, cluster_info, mcalls,
                   mcall, procs, extensions, registered, sc>>
    /\ UNCHANGED <<bvars, rvars, xvars>>

\* Lines 63-68: the reply of start_master arrives; the coroutine raises its
\* failure or sends every start_slave.
MasterReply ==
    /\ fpc = "l63"
    /\ mcall.status \in {"ok", "failed"}
    /\ IF mcall.status = "failed"
         THEN /\ fpc' = "raised"
              /\ ferr' = "start_master"
              /\ UNCHANGED <<master, slaves>>
         ELSE /\ master' = mcall.result
              /\ slaves' = SlaveCalls(hosts, mcall.result)
              /\ fpc' = "l64"
              /\ UNCHANGED ferr
    /\ UNCHANGED <<dworkers, churn, sched_addr, cluster_info, hosts, mcalls,
                   mcall, procs, extensions, registered, sc>>
    /\ UNCHANGED <<bvars, rvars, xvars>>

\* Lines 33-44 on the worker the call is pinned to; the call fails when that
\* worker has left the cluster or Popen raises.
start_slave(k, spawned) ==
    /\ k \in 1..Len(slaves)
    /\ slaves[k].status = "pending"
    /\ LET call == slaves[k]
       IN  IF call.workers \in DOMAIN dworkers /\ spawned
             THEN /\ Spawn(call.workers,
                           SlaveProc(call.workers, call.master, call.cores,
                                     call.memory))
                  /\ slaves' = [slaves EXCEPT ![k].status = "ok"]
             ELSE /\ slaves' = [slaves EXCEPT ![k].status = "failed"]
                  /\ UNCHANGED <<procs, extensions, registered>>
    /\ UNCHANGED <<dworkers, churn, sched_addr, fpc, ferr, cluster_info, hosts,
                   mcalls, mcall, master, sc>>
    /\ UNCHANGED <<bvars, rvars, xvars>>

\* Gather that resumes on the first answer instead of the last.
Gather_First ==
    /\ fpc = "l64"
    /\ \E k \in 1..Len(slaves) : slaves[k].status # "pending"
    /\ IF \E k \in 1..Len(slaves) : slaves[k].status = "failed"
         THEN /\ fpc' = "raised"
              /\ ferr' = "start_slave"
              /\ UNCHANGED sc
         ELSE /\ sc' = master
              /\ fpc' = "returned"
              /\ UNCHANGED ferr
    /\ UNCHANGED <<dworkers, churn, sched_addr, cluster_info, hosts, mcalls,
                   mcall, master, slaves, procs, extensions, registered>>
    /\ UNCHANGED <<bvars, rvars, xvars>>

\* Gather that, when a start_slave failed, terminates what the call launched
\* and clears its registrations.
Gather_Compensate ==
    /\ fpc = "l64"
    /\ \A k \in 1..Len(slaves) : slaves[k].status # "pending"
    /\ IF \E k \in 1..Len(slaves) : slaves[k].status = "failed"
         THEN /\ fpc' = "raised"
              /\ ferr' = "start_slave"
              /\ terminated' = 1..Len(procs)
              /\ extensions' = [l \in Loc |-> 0]
              /\ registered' = [l \in Loc |-> <<>>]
              /\ UNCHANGED sc
         ELSE /\ sc' = master
              /\ fpc' = "returned"
              /\ UNCHANGED <<ferr, terminated, extensions, registered>>
    /\ UNCHANGED <<dworkers, churn, sched_addr, cluster_info, hosts, mcalls,
                   mcall, master, slaves, procs, exited>>
    /\ UNCHANGED <<bvars, rvars>>

\* Lines 64-70: every start_slave has answered; the coroutine raises a
\* failure or makes the SparkContext and returns it.
Gather ==
    /\ fpc = "l64"
    /\ \A k \in 1..Len(slaves) : slaves[k].status # "pending"
    /\ IF \E k \in 1..Len(slaves) : slaves[k].status = "failed"
         THEN /\ fpc' = "raised"
              /\ ferr' = "start_slave"
              /\ UNCHANGED sc
         ELSE /\ sc' = master
              /\ fpc' = "returned"
              /\ UNCHANGED ferr
    /\ UNCHANGED <<dworkers, churn, sched_addr, cluster_info, hosts, mcalls,
                   mcall, master, slaves, procs, extensions, registered>>
    /\ UNCHANGED <<bvars, rvars, xvars>>

\* A start_master or start_slave call is on its way or running.
Launching ==
    \/ fpc = "l63" /\ mcall.status = "pending"
    \/ fpc = "l64" /\ \E k \in 1..Len(slaves) : slaves[k].status = "pending"

\* A worker joins the Dask cluster while the master or the slaves are being
\* launched; it gets the next address.
Join(w, info) ==
    /\ Launching
    /\ churn < MaxChurn
    /\ \A a \in DOMAIN dworkers \cup DOMAIN cluster_info : a < w
    /\ \A a \in Addr : a < w => a \in DOMAIN dworkers \cup DOMAIN cluster_info
    /\ dworkers' = [a \in DOMAIN dworkers \cup {w} |->
                       IF a = w THEN info ELSE dworkers[a]]
    /\ churn' = churn + 1
    /\ UNCHANGED <<sched_addr, fpc, ferr, cluster_info, hosts, mcalls, mcall,
                   master, slaves, procs, extensions, registered, sc>>
    /\ UNCHANGED <<bvars, rvars, xvars>>

\* A worker leaves the Dask cluster while the master or the slaves are being
\* launched.
Leave(w) ==
    /\ Launching
    /\ churn < MaxChurn
    /\ w \in DOMAIN dworkers
    /\ dworkers' = [a \in DOMAIN dworkers \ {w} |-> dworkers[a]]
    /\ churn' = churn + 1
    /\ UNCHANGED <<sched_addr, fpc, ferr, cluster_info, hosts, mcalls, mcall,
                   master, slaves, procs, extensions, registered, sc>>
    /\ UNCHANGED <<bvars, rvars, xvars>>

\* Line 63, sent once more: a client runs start_master on the scheduler.
RunOnScheduler ==
    /\ 0 \notin exited
    /\ mcall.status # "pending"
    /\ mcalls < MaxLaunches
    /\ mcalls' = mcalls + 1
    /\ mcall' = [status |-> "pending", result |-> <<>>]
    /\ UNCHANGED <<dworkers, churn, sched_addr, fpc, ferr, cluster_info, hosts,
                   master, slaves, procs, extensions, registered, sc>>
    /\ UNCHANGED <<bvars, rvars, xvars>>

\* Lines 65-67, sent once more: a client runs start_slave on worker w with
\* the master address the last start_master returned.
RunOnWorker(w, cores, memory) ==
    /\ w \in DOMAIN dworkers
    /\ mcall.status = "ok"
    /\ Len(slaves) < MaxLaunches
    /\ slaves' = Append(slaves, [workers |-> w, master |-> mcall.result,
                                  cores |-> cores, memory |-> ToInt(memory),
                                  status |-> "pending"])
    /\ UNCHANGED <<dworkers, churn, sched_addr, fpc, ferr, cluster_info, hosts,
                   mcalls, mcall, master, procs, extensions, registered, sc>>
    /\ UNCHANGED <<bvars, rvars, xvars>>

\* The handles the atexit handlers of process loc close over.
Handles(loc) == {registered[loc][n] : n \in 1..Len(registered[loc])}

\* ExitProcess that terminates only the handle in extensions['spark'].
ExitProcess_SlotOnly(loc) ==
    /\ loc \notin exited
    /\ loc = 0 => mcall.status # "pending"
    /\ \A k \in 1..Len(slaves) :
          slaves[k].workers = loc => slaves[k].status # "pending"
    /\ terminated' = terminated \cup ({extensions[loc]} \ {0})
    /\ exited' = exited \cup {loc}
    /\ dworkers' = [a \in DOMAIN dworkers \ {loc} |-> dworkers[a]]
    /\ UNCHANGED <<churn, sched_addr, fpc, ferr, cluster_info, hosts, mcalls,
                   mcall, master, slaves, procs, extensions, registered, sc>>
    /\ UNCHANGED <<bvars, rvars>>

\* The interpreter of process loc (the scheduler's or a worker's) terminates
\* normally, with no start_master or start_slave running in it: atexit runs
\* every handler registered at lines 26-28 and 40-42, and each calls
\* proc.terminate() on the handle it closes over.
ExitProcess(loc) ==
    /\ loc \notin exited
    /\ loc = 0 => mcall.status # "pending"
    /\ \A k \in 1..Len(slaves) :
          slaves[k].workers = loc => slaves[k].status # "pending"
    /\ terminated' = terminated \cup Handles(loc)
    /\ exited' = exited \cup {loc}
    /\ dworkers' = [a \in DOMAIN dworkers \ {loc} |-> dworkers[a]]
    /\ UNCHANGED <<churn, sched_addr, fpc, ferr, cluster_info, hosts, mcalls,
                   mcall, master, slaves, procs, extensions, registered, sc>>
    /\ UNCHANGED <<bvars, rvars>>

\* ============================================================ specifications
InitWorkers ==
    /\ ipc = [v \in Inv |-> "idle"]
    /\ islot = [v \in Inv |-> 0]
    /\ iret = [v \in Inv |-> "none"]
    /\ wstatus = [v \in Inv |-> "none"]
    /\ global_worker = [s \in Slot |-> 0]
    /\ workers = {}

InitCaller ==
    /\ pc = "l134"
    /\ cluster = "none"
    /\ thread = "unstarted"
    /\ i = 0
    /\ found = FALSE
    /\ polls = 0
    /\ sleeps = 0

\* The dask_to_spark variables of a run in which it is not called.
IdleForward ==
    /\ dworkers = <<>>
    /\ churn = 0
    /\ sched_addr = <<>>
    /\ fpc = "idle"
    /\ ferr = "none"
    /\ cluster_info = <<>>
    /\ hosts = <<>>
    /\ mcalls = 0
    /\ mcall = "none"
    /\ master = <<>>
    /\ slaves = <<>>
    /\ procs = <<>>
    /\ extensions = <<>>
    /\ registered = <<>>
    /\ sc = <<>>
    /\ terminated = {}
    /\ exited = {}

InitBootstrap == InitWorkers /\ InitCaller /\ IdleForward

NextBootstrap ==
    \/ \E v \in Inv, s \in Slot : Call(v, s)
    \/ \E v \in Inv : WorkerStep(v)

SpecBootstrap == InitBootstrap /\ [][NextBootstrap]_vars

InitReverse == InitWorkers /\ InitCaller /\ IdleForward

NextReverse ==
    \/ CallerStep
    \/ ThreadFinish
    \/ \E v \in Inv : TaskBegin(v)
    \/ \E v \in Inv : Register(v)
    \/ \E v \in Inv : Close(v)
    \/ \E v \in Inv : TaskEnd(v)

SpecReverse == InitReverse /\ [][NextReverse]_vars

\* The caller's thread keeps running: none of its steps waits for anything.
LiveSpecReverse == SpecReverse /\ WF_vars(CallerStep)

InitForward ==
    /\ InitWorkers
    /\ InitCaller
    /\ \E n \in 0..NWorkers : dworkers \in [1..n -> InfoSet]
    /\ churn = 0
    /\ sched_addr \in SchedulerAddresses
    /\ fpc = "l49"
    /\ ferr = "none"
    /\ cluster_info = <<>>
    /\ hosts = <<>>
    /\ mcalls = 0
    /\ mcall = [status |-> "none", result |-> <<>>]
    /\ master = <<>>
    /\ slaves = <<>>
    /\ procs = <<>>
    /\ extensions = [l \in Loc |-> 0]
    /\ registered = [l \in Loc |-> <<>>]
    /\ sc = <<>>
    /\ terminated = {}
    /\ exited = {}

NextForward ==
    \/ Identity
    \/ \E spawned \in BOOLEAN : start_master(MasterPort, spawned)
    \/ MasterReply
    \/ \E k \in 1..NWorkers, spawned \in BOOLEAN : start_slave(k, spawned)
    \/ Gather
    \/ \E w \in Addr, info \in JoinInfo : Join(w, info)
    \/ \E w \in Addr : Leave(w)

SpecForward == InitForward /\ [][NextForward]_vars

\* start_master and start_slave as functions: clients send them again and
\* again to one scheduler and its workers, and the processes exit.
InitLauncher ==
    /\ InitWorkers
    /\ InitCaller
    /\ dworkers = [w \in Addr |-> WithHost([ncores |-> 2], "A")]
    /\ churn = 0
    /\ sched_addr \in SchedulerAddresses
    /\ fpc = "idle"
    /\ ferr = "none"
    /\ cluster_info = <<>>
    /\ hosts = <<>>
    /\ mcalls = 0
    /\ mcall = [status |-> "none", result |-> <<>>]
    /\ master = <<>>
    /\ slaves = <<>>
    /\ procs = <<>>
    /\ extensions = [l \in Loc |-> 0]
    /\ registered = [l \in Loc |-> <<>>]
    /\ sc = <<>>
    /\ terminated = {}
    /\ exited = {}

NextLauncher ==
    \/ RunOnScheduler
    \/ \E spawned \in BOOLEAN : start_master(MasterPort, spawned)
    \/ \E w \in Addr : RunOnWorker(w, 2, DefaultMemory)
    \/ \E k \in 1..MaxLaunches, spawned \in BOOLEAN : start_slave(k, spawned)
    \/ \E loc \in Loc : ExitProcess(loc)

SpecLauncher == InitLauncher /\ [][NextLauncher]_vars

\* ================================================================== claims
Terminal == pc \in {"returned", "raised"}
AllIdle == \A v \in Inv : ipc[v] = "idle"
PastCheck(v) == ipc[v] \in {"l101", "l106", "l111", "l114", "l115"}

\* C1: spark_to_dask raises TimeoutError if and only if no poll of the loop
\* found a worker in the registry, a first worker found at the 999th poll
\* included; it returns the client otherwise.
C1_RaisesIffNoWorkerSeen ==
    Terminal => (pc = "raised" <=> ~found)

\* C2: a poll of iteration k < 999 that finds the registry non-empty ends the
\* loop at iteration k: k polls and k - 1 sleeps were made, none is made
\* afterwards, and the call goes on to return the client.
C2_ExitsAtFirstWorker ==
    /\ (pc = "l143" /\ polls > 0) => ~found
    /\ (pc \in {"l152", "returned", "raised"} /\ found /\ i < 999) =>
          /\ polls = i
          /\ sleeps = i - 1
          /\ pc \in {"l152", "returned"}

C2_Witness == pc = "returned" /\ found /\ i = 2 /\ polls = 2

\* C3: whatever the background thread, its tasks and the registry do, the
\* caller reads the registry at most 999 times and ends with the client
\* returned or the TimeoutError raised.
C3_LoopTerminates ==
    /\ [](polls <= 999)
    /\ <>Terminal

C3_Witness ==
    /\ Terminal
    /\ polls = 999
    /\ \E v \in Inv : ipc[v] = "idle"
    /\ \E v \in Inv : ipc[v] = "l111" /\ wstatus[v] = "init"

\* C4: of two invocations of start_worker that overlap in one process, only
\* one gets past the test of line 98, so that a process never holds two
\* active workers.
C4_OneWorkerPerSlot ==
    /\ \A u, v \in Inv :
          (u # v /\ islot[u] = islot[v] /\ InProgress(u) /\ InProgress(v))
              => ~(PastCheck(u) /\ PastCheck(v))
    /\ \A s \in Slot :
          Cardinality({v \in Inv : islot[v] = s /\ ActiveWorker(v)}) <= 1

\* ---- the snapshot, summed host by host
RECURSIVE SumOver(_, _)
SumOver(S, f) ==
    IF S = {} THEN 0
    ELSE LET x == CHOOSE x \in S : TRUE
         IN  f[x] + SumOver(S \ {x}, f)

SnapshotHosts == {cluster_info[w].host : w \in DOMAIN cluster_info}
WorkersOn(h) == {w \in DOMAIN cluster_info : cluster_info[w].host = h}
TotalCores(h) ==
    SumOver(WorkersOn(h), [w \in WorkersOn(h) |-> cluster_info[w].ncores])
TotalMemory(h) ==
    SumOver(WorkersOn(h),
            [w \in WorkersOn(h) |->
                IF "memory_limit" \in DOMAIN cluster_info[w]
                  THEN cluster_info[w].memory_limit
                  ELSE 4000])
SlaveCallsFor(h) ==
    {k \in 1..Len(slaves) : cluster_info[slaves[k].workers].host = h}
SlaveProcs == {n \in 1..Len(procs) : procs[n].cmd = "start-slave.sh"}

\* C5: a dask_to_spark call sends at most one start_master and at most one
\* start_slave for a host, and none for a host that is not in the snapshot;
\* once it has sent the start_slave calls (lines 64-68) it has sent exactly
\* one start_master and exactly one start_slave for each host of the
\* snapshot, however many workers share the host.
C5_OneLaunchPerHost ==
    /\ mcalls <= 1
    /\ \A k \in 1..Len(slaves) : slaves[k].workers \in DOMAIN cluster_info
    /\ \A h \in Host : Cardinality(SlaveCallsFor(h)) <= 1
    /\ (fpc \in {"l64", "returned"} \/ ferr = "start_slave") =>
          /\ mcalls = 1
          /\ Len(slaves) = Cardinality(SnapshotHosts)
          /\ \A h \in SnapshotHosts : Cardinality(SlaveCallsFor(h)) = 1

C5_Witness ==
    /\ fpc = "returned"
    /\ Cardinality(DOMAIN cluster_info) = 3
    /\ Cardinality(SnapshotHosts) = 2
    /\ Len(slaves) = 2

\* The scenario of the specification: w1 on A with 4 cores and 8e9 bytes, w2 on
\* A with 2 cores and no memory figure, w3 on B with 8 cores and 16e9 bytes.
Scenario ==
    <<[host |-> "A", ncores |-> 4, memory_limit |-> 8000],
      [host |-> "A", ncores |-> 2],
      [host |-> "B", ncores |-> 8, memory_limit |-> 16000]>>

ScenarioTotals ==
    <<[host |-> "A", address |-> 1, cores |-> 6, memory |-> 12000],
      [host |-> "B", address |-> 3, cores |-> 8, memory |-> 16000]>>

\* C6: the aggregation has one entry for each host of the snapshot, holding
\* the sum of ncores of the workers of that host and the sum of their memory
\* limits, 4e9 bytes standing for a missing one; the scenario of the
\* specification gives A 6 cores and 12e9 bytes, B 8 cores and 16e9 bytes.
C6_HostTotals ==
    /\ AggregateLoop(<<1, 2, 3>>, Scenario, <<>>) = ScenarioTotals
    /\ fpc # "l49" =>
          /\ Len(hosts) = Cardinality(SnapshotHosts)
          /\ \A k \in 1..Len(hosts) :
                /\ hosts[k].host \in SnapshotHosts
                /\ hosts[k].cores = TotalCores(hosts[k].host)
                /\ hosts[k].memory = TotalMemory(hosts[k].host)
          /\ \A h \in SnapshotHosts : \E k \in 1..Len(hosts) : hosts[k].host = h

C6_Witness ==
    /\ fpc # "l49"
    /\ \E k \in 1..Len(hosts) :
          /\ Cardinality(WorkersOn(hosts[k].host)) = 2
          /\ \E w \in WorkersOn(hosts[k].host) :
                "memory_limit" \notin DOMAIN cluster_info[w]
          /\ \E w \in WorkersOn(hosts[k].host) :
                "memory_limit" \in DOMAIN cluster_info[w]
          /\ hosts[k].memory = 12000

\* C7: on a snapshot without workers dask_to_spark raises ValueError; it has
\* then sent no start_master and no start_slave, spawned no subprocess and
\* made no SparkContext.
C7_EmptySnapshotRaises ==
    (fpc # "l49" /\ DOMAIN cluster_info = {}) =>
        /\ fpc = "raised"
        /\ ferr = "ValueError"
        /\ mcalls = 0
        /\ mcall.status = "none"
        /\ slaves = <<>>
        /\ procs = <<>>
        /\ sc = <<>>

C7_Witness == fpc = "raised" /\ ferr = "ValueError" /\ DOMAIN cluster_info = {}

\* C8: as long as no task has called start_worker the call does not return a
\* client and raises only after 999 polls and 999 sleeps; and if no task
\* ever calls start_worker, it raises.
C8_NoBootstrapTimesOut ==
    /\ [](AllIdle => /\ pc # "returned"
                     /\ pc \in {"l152", "raised"} =>
                           (polls = 999 /\ sleeps = 999 /\ ~found))
    /\ ([]AllIdle) => <>(pc = "raised")

C8_Witness == pc = "raised" /\ AllIdle /\ polls = 999 /\ thread = "started"

\* C9: start_master runs in the scheduler's process, and start_slave calls
\* exist only after it has answered with the master address, which each of
\* them carries; while it is pending or after it failed there is no
\* start_slave call and no slave process.
C9_MasterBeforeSlaves ==
    /\ fpc \in {"l49", "l63"} => slaves = <<>>
    /\ mcall.status # "ok" => (slaves = <<>> /\ SlaveProcs = {})
    /\ mcall.status = "ok" =>
          /\ procs[1].cmd = "start-master.sh"
          /\ procs[1].at = 0
          /\ mcall.result = MasterString(procs[1].host, 7077)
    /\ slaves # <<>> =>
          /\ master = mcall.result
          /\ \A k \in 1..Len(slaves) : slaves[k].master = mcall.result
          /\ \A n \in SlaveProcs : procs[n].master = mcall.result

C9_Witness ==
    /\ fpc = "l64"
    /\ Len(slaves) = 2
    /\ \E n \in SlaveProcs : procs[n].master = <<"s", "p", "a", "r", "k", ":",
                                 "/", "/", "a", ":", "7", "0", "7", "7">>

\* The slave process that host h gets from the snapshot's totals.
ExpectedSlave(h) ==
    LET k == CHOOSE k \in 1..Len(slaves) :
                 cluster_info[slaves[k].workers].host = h
    IN  SlaveProc(slaves[k].workers, master, TotalCores(h), TotalMemory(h))

\* C10: all start_slave calls are sent together, each with the master address
\* and the total cores and memory of its own host; the call returns the
\* SparkContext only when every one of them has succeeded, and the slave
\* processes then running are the same whatever the order they started in.
C10_GatherAllSlaves ==
    /\ slaves # <<>> =>
          \A k \in 1..Len(slaves) :
              LET h == cluster_info[slaves[k].workers].host
              IN  /\ slaves[k].master = master
                  /\ slaves[k].cores = TotalCores(h)
                  /\ slaves[k].memory = TotalMemory(h)
    /\ fpc = "returned" =>
          /\ \A k \in 1..Len(slaves) : slaves[k].status = "ok"
          /\ sc = master
          /\ Cardinality(SlaveProcs) = Cardinality(SnapshotHosts)
          /\ {procs[n] : n \in SlaveProcs} =
                 {ExpectedSlave(h) : h \in SnapshotHosts}

\* The slave of the second host started before the slave of the first.
C10_Witness ==
    /\ fpc = "returned"
    /\ Len(slaves) = 2
    /\ procs[2].at = slaves[2].workers
    /\ procs[3].at = slaves[1].workers

\* The subprocess the k-th start_slave call spawned, 0 when it spawned none.
ProcOfCall(k) ==
    LET S == {n \in SlaveProcs : procs[n].at = slaves[k].workers}
    IN  IF S = {} THEN 0 ELSE CHOOSE n \in S : TRUE

\* C11: when a start_slave fails after start_master succeeded, dask_to_spark
\* raises that failure and returns no SparkContext, and it compensates
\* nothing: the master and every slave that did start are still running,
\* still in extensions['spark'] of their process and still registered with
\* atexit there.
C11_NoCompensation ==
    ferr = "start_slave" =>
        /\ fpc = "raised"
        /\ sc = <<>>
        /\ mcall.status = "ok"
        /\ terminated = {}
        /\ procs[1].cmd = "start-master.sh"
        /\ extensions[0] = 1
        /\ registered[0] = <<1>>
        /\ \A k \in 1..Len(slaves) :
              slaves[k].status = "ok" =>
                  /\ ProcOfCall(k) # 0
                  /\ extensions[slaves[k].workers] = ProcOfCall(k)
                  /\ registered[slaves[k].workers] = <<ProcOfCall(k)>>

\* One start_slave failed after another had started its slave.
C11_Witness ==
    /\ fpc = "raised"
    /\ ferr = "start_slave"
    /\ \E k \in 1..Len(slaves) : slaves[k].status = "ok"
    /\ \E k \in 1..Len(slaves) : slaves[k].status = "failed"
    /\ Len(procs) = 2

\* C12: a start_worker call that started a worker stays in loop.run_sync
\* until the worker's status is 'closed' and returns ['completed'] only then;
\* when it returns, the marker it put in distributed.global_worker is gone,
\* so that the marker a later call finds is never the one of a call that has
\* returned: the later call starts a worker of its own.
C12_BlocksUntilClosedThenReleases ==
    /\ \A v \in Inv :
          /\ ipc[v] \in {"l114", "l115"} => wstatus[v] = "closed"
          /\ iret[v] = "completed" => (ipc[v] = "done" /\ wstatus[v] = "closed")
          /\ (ipc[v] = "l111" /\ wstatus[v] # "closed") =>
                ~ENABLED WaitClosed(v)
    /\ \A s \in Slot :
          global_worker[s] # 0 =>
              /\ islot[global_worker[s]] = s
              /\ ipc[global_worker[s]] \in {"l111", "l114"}

\* A call has returned ['completed'] and a call in the same process has
\* started a worker of its own since.
C12_Witness ==
    \E u, v \in Inv :
        /\ u # v
        /\ islot[u] = islot[v]
        /\ iret[u] = "completed"
        /\ ipc[v] = "l111"
        /\ wstatus[v] = "running"
        /\ global_worker[islot[v]] = v

\* What a start_slave call was sent with.
SlaveArgs(k) ==
    [workers |-> slaves[k].workers, cores |-> slaves[k].cores,
     memory |-> slaves[k].memory]

\* C13: dask_to_spark reads the workers once, at line 49; the snapshot and
\* the hosts made of it never change afterwards, the start_slave calls go
\* to the hosts of the snapshot with the cores and memory of the snapshot,
\* and a worker that joins or leaves while the master or the slaves are
\* launched changes neither the calls nor what they carry.
C13_SingleSnapshot ==
    /\ [](slaves # <<>> =>
            /\ {cluster_info[slaves[k].workers].host : k \in 1..Len(slaves)}
                   = SnapshotHosts
            /\ Len(slaves) = Cardinality(SnapshotHosts)
            /\ \A k \in 1..Len(slaves) :
                  LET h == cluster_info[slaves[k].workers].host
                  IN  /\ slaves[k].cores = TotalCores(h)
                      /\ slaves[k].memory = TotalMemory(h))
    /\ [][/\ fpc # "l49" => (cluster_info' = cluster_info /\ hosts' = hosts)
          /\ slaves # <<>> =>
                /\ Len(slaves') = Len(slaves)
                /\ \A k \in 1..Len(slaves) : SlaveArgs(k)' = SlaveArgs(k)]_vars

\* A worker has joined a host of the snapshot during the launches, and the
\* call has returned.
C13_Witness ==
    /\ fpc = "returned"
    /\ churn > 0
    /\ \E w \in DOMAIN dworkers \ DOMAIN cluster_info :
          dworkers[w].host \in SnapshotHosts

\* The slot of task v runs no other task.
SlotFree(v) == \A u \in Inv : InProgress(u) => islot[u] # SlotOfTask(v)

\* The Spark job goes on: a task that has not run can start its worker and
\* a started worker can register.
JobGoesOn ==
    \A v \in Inv :
        /\ (thread = "started" /\ ipc[v] = "idle" /\ SlotFree(v)) =>
              ENABLED TaskBegin(v)
        /\ (ipc[v] = "l111" /\ wstatus[v] = "init") => ENABLED Register(v)

\* C14: spark_to_dask leaves the loop at the first poll that sees a worker
\* and returns the client without waiting for anything else, whatever the
\* number of workers registered; after the return the tasks of the other
\* slots can still start their workers and register them.
C14_ReturnsOnFirstWorker ==
    /\ pc = "l152" => ENABLED Finish
    /\ pc = "returned" => (found /\ cluster = "running" /\ JobGoesOn)

\* The client is returned with one worker registered and a task not yet run.
C14_Witness ==
    /\ pc = "returned"
    /\ Cardinality(workers) = 1
    /\ Cardinality(workers) < NSlots
    /\ \E v \in Inv : ipc[v] = "idle" /\ SlotFree(v)

\* C15: when spark_to_dask raises TimeoutError it has neither closed the
\* LocalCluster nor cancelled the Spark job: the cluster is still running,
\* the thread of line 139 still exists, and tasks can still start workers
\* that register with the scheduler.
C15_TimeoutLeavesClusterUp ==
    pc = "raised" =>
        /\ cluster = "running"
        /\ thread \in {"started", "finished"}
        /\ JobGoesOn

\* No poll saw a worker, the call raised, and a worker registered afterwards.
C15_Witness == pc = "raised" /\ ~found /\ polls = 999 /\ workers # {}

\* The subprocesses spawned in process loc.
ProcsAt(loc) == {n \in 1..Len(procs) : procs[n].at = loc}

Max(S) == CHOOSE n \in S : \A m \in S : m <= n

\* C16: when a process terminates normally, every subprocess that
\* start_master or start_slave spawned in it has had terminate() called on
\* it, those whose handle a later call replaced in extensions['spark']
\* included; and only the exit of its process terminates a subprocess.
C16_ExitTerminatesAll ==
    /\ \A loc \in exited : ProcsAt(loc) \subseteq terminated
    /\ \A n \in terminated : procs[n].at \in exited

\* The scheduler has exited after two start_master calls spawned a master.
C16_Witness ==
    /\ 0 \in exited
    /\ Cardinality(ProcsAt(0)) >= 2
    /\ \E n \in ProcsAt(0) : n # extensions[0] /\ n \in terminated

\* C17: extensions['spark'] of the scheduler holds one handle, the one of the
\* latest start_master that spawned a master; a further call is not refused,
\* replaces the handle, and leaves the earlier master running (it is
\* terminated only when the scheduler exits) and out of reach of the slot.
C17_LatestMasterInSlot ==
    /\ ProcsAt(0) = {} => extensions[0] = 0
    /\ ProcsAt(0) # {} => extensions[0] = Max(ProcsAt(0))
    /\ mcall.status = "ok" =>
          /\ ProcsAt(0) # {}
          /\ procs[extensions[0]].cmd = "start-master.sh"
    /\ 0 \notin exited => ProcsAt(0) \cap terminated = {}
    /\ Handles(0) = ProcsAt(0)

\* Two start_master calls have spawned a master on the running scheduler.
C17_Witness ==
    /\ 0 \notin exited
    /\ Cardinality(ProcsAt(0)) = 2
    /\ mcall.status = "ok"
    /\ \E n \in ProcsAt(0) : n # extensions[0] /\ n \notin terminated

\* The worker of host h that the loop of line 53 meets first.
FirstWorkerOn(h) == CHOOSE w \in WorkersOn(h) : \A u \in WorkersOn(h) : w <= u

\* C18: each start_slave call of one dask_to_spark is pinned to one worker
\* of the snapshot, the first worker of the host whose totals the call
\* carries; no two calls are pinned to the same worker, so that the call
\* spawns at most one slave in a worker's process and writes its
\* extensions['spark'] and registers with its atexit at most once.
C18_OneSlavePerPinnedWorker ==
    /\ \A k \in 1..Len(slaves) :
          /\ slaves[k].workers \in DOMAIN cluster_info
          /\ LET h == cluster_info[slaves[k].workers].host
             IN  /\ slaves[k].workers = FirstWorkerOn(h)
                 /\ hosts[k].host = h
                 /\ slaves[k].cores = hosts[k].cores
                 /\ slaves[k].memory = hosts[k].memory
          /\ \A j \in 1..Len(slaves) :
                j # k => slaves[j].workers # slaves[k].workers
    /\ \A w \in Addr :
          /\ Cardinality(ProcsAt(w)) <= 1
          /\ Len(registered[w]) <= 1
          /\ ProcsAt(w) # {} =>
                /\ \E k \in 1..Len(slaves) :
                      slaves[k].workers = w /\ slaves[k].status = "ok"
                /\ extensions[w] \in ProcsAt(w)
                /\ registered[w] = <<extensions[w]>>

\* Two hosts, one of them with two workers, have each got their slave.
C18_Witness ==
    /\ fpc = "returned"
    /\ Len(slaves) = 2
    /\ \E h \in SnapshotHosts :
          /\ Cardinality(WorkersOn(h)) = 2
          /\ ProcsAt(FirstWorkerOn(h)) # {}
          /\ \A w \in WorkersOn(h) \ {FirstWorkerOn(h)} : extensions[w] = 0

====
